---- MODULE Spec2Model ----
(***************************************************************************)
(* The recursive-descent parser of src/source/parser.cpp.                  *)
(*                                                                         *)
(* A Parser owns the token vector `tokens` and the cursor `offset`.  Every *)
(* parse_* member function is a deterministic function of the tokens and   *)
(* the cursor at its entry: it returns a node and the cursor at its exit,  *)
(* or throws.  Each is modelled by an operator of the same name taking     *)
(* (toks, off) and returning a result record                               *)
(*     [kind, node, text, found, off, what]                                *)
(* where kind is "ok" (returned), "throw" (std::runtime_error, `what` is   *)
(* its message), "ub" (tokens[i] was read with i outside the vector) or    *)
(* "diverge" (a loop came back to its head with the cursor unmoved: the    *)
(* cursor is the parser's only mutable state, so the loop never ends).     *)
(* Parser::parse, the driver loop, is the state machine.                   *)
(*                                                                         *)
(* Positions are 1-based here: the C++ index i is position i + 1.          *)
(***************************************************************************)
EXTENDS Integers, Sequences, FiniteSets, TLC

VARIABLES tokens, offset, declarations, status, what, unit, evaluation_order

vars == <<tokens, offset, declarations, status, what, unit, evaluation_order>>

(***************************************************************************)
(* Tokens: a type tag and the literal text.                                *)
(***************************************************************************)
Token(type, value) == [type |-> type, value |-> value]

(***************************************************************************)
(* AST nodes.  Every node is [kind, text, kids]: the class, the strings it *)
(* carries, and its children in constructor-argument order.  An absent     *)
(* (null shared_ptr) child is Null.                                        *)
(***************************************************************************)
Node(kind, text, kids) == [kind |-> kind, text |-> text, kids |-> kids]

Null == Node("null", "", <<>>)

TranslationUnit(decls) == Node("TranslationUnit", "", decls)

FuncDeclaration(type, declarator, args, body) == Node("FuncDeclaration", type, <<declarator, Node("parameters", "", args), body>>)

ParameterDeclaration(type, init_declarator) == Node("ParameterDeclaration", type, <<init_declarator>>)

VarDeclaration(type, declarator_list) == Node("VarDeclaration", type, declarator_list)

InitDeclarator(declarator, initializer) == Node("InitDeclarator", "", <<declarator, initializer>>)

PtrDeclarator(name) == Node("PtrDeclarator", name, <<>>)

NoPtrDeclarator(name) == Node("NoPtrDeclarator", name, <<>>)

CompoundStatement(statements) == Node("CompoundStatement", "", statements)

ConditionalStatement(if_branch, elif_branches, else_branch) == Node("ConditionalStatement", "", <<if_branch, Node("elif_branches", "", elif_branches), else_branch>>)

Branch(condition, statement) == Node("branch", "", <<condition, statement>>)

WhileStatement(condition, statement) == Node("WhileStatement", "", <<condition, statement>>)

RepeatStatement(statement) == Node("RepeatStatement", "", <<statement>>)

ForStatement == Node("ForStatement", "", <<>>)

BreakStatement == Node("BreakStatement", "", <<>>)

ContinueStatement == Node("ContinueStatement", "", <<>>)

ReturnStatement(expression) == Node("ReturnStatement", "", <<expression>>)

DeclarationStatement(declaration) == Node("DeclarationStatement", "", <<declaration>>)

ExpressionStatement(expression) == Node("ExpressionStatement", "", <<expression>>)

BinaryOperation(op, lhs, rhs) == Node("BinaryOperation", op, <<lhs, rhs>>)

PrefixExpression(op, operand) == Node("PrefixExpression", op, <<operand>>)

PostfixIncrementExpression(base) == Node("PostfixIncrementExpression", "", <<base>>)

PostfixDecrementExpression(base) == Node("PostfixDecrementExpression", "", <<base>>)

FunctionCallExpression(base, args) == Node("FunctionCallExpression", "", <<base, Node("arguments", "", args)>>)

SubscriptExpression(base, index) == Node("SubscriptExpression", "", <<base, index>>)

IntLiteral(text) == Node("IntLiteral", text, <<>>)

FloatLiteral(text) == Node("FloatLiteral", text, <<>>)

CharLiteral(text) == Node("CharLiteral", text, <<>>)

StringLiteral(text) == Node("StringLiteral", text, <<>>)

BoolLiteral(text) == Node("BoolLiteral", text, <<>>)

IdentifierExpression(text) == Node("IdentifierExpression", text, <<>>)

ParenthesizedExpression(expression) == Node("ParenthesizedExpression", "", <<expression>>)

(***************************************************************************)
(* Results of a member function.                                           *)
(***************************************************************************)
NoMessage == [msg |-> "", arg |-> <<>>]

Ok(node, off) == [kind |-> "ok", node |-> node, text |-> "", found |-> TRUE, off |-> off, what |-> NoMessage]

\* A bool returned by check_token, match_token or match_pattern.
Found(b, off) == [kind |-> "ok", node |-> Null, text |-> "", found |-> b, off |-> off, what |-> NoMessage]

\* The std::string returned by extract_token.
Text(text, off) == [kind |-> "ok", node |-> Null, text |-> text, found |-> TRUE, off |-> off, what |-> NoMessage]

\* throw std::runtime_error(msg + arg[1] + ...), the cursor left at off.
Throw(msg, arg, off) == [kind |-> "throw", node |-> Null, text |-> "", found |-> FALSE, off |-> off, what |-> [msg |-> msg, arg |-> arg]]

\* tokens[off] with off outside the vector: undefined behaviour.
OutOfRange(off) == [kind |-> "ub", node |-> Null, text |-> "", found |-> FALSE, off |-> off, what |-> NoMessage]

\* A loop whose iteration left the cursor where it was: it repeats for ever.
Diverge(off) == [kind |-> "diverge", node |-> Null, text |-> "", found |-> FALSE, off |-> off, what |-> NoMessage]

InRange(toks, off) == off \in 1..Len(toks)

(***************************************************************************)
(* The static tables.                                                      *)
(***************************************************************************)
operator_precedences == [op \in {"=", "+=", "-=", "*=", "/=", "%=", "**="} |-> 0] @@ ("||" :> 1) @@ ("&&" :> 2) @@ [op \in {"==", "!="} |-> 3] @@ [op \in {"<", "<=", ">", ">="} |-> 4] @@ [op \in {"+", "-"} |-> 5] @@ [op \in {"*", "/", "%"} |-> 6] @@ ("^" :> 7)

unary_operators == {"+", "-", "&", "*", "!", "++", "--"}

(***************************************************************************)
(* The cursor primitives.                                                  *)
(***************************************************************************)
\* ++offset
advance(off) == off + 1

check_token(toks, off, expected) == IF ~InRange(toks, off) THEN OutOfRange(off) ELSE Found(toks[off].type \in expected, off)

match_token(toks, off, expected) ==
    LET match_found == check_token(toks, off, expected) IN
    IF match_found.kind # "ok" THEN match_found
    ELSE IF match_found.found THEN Found(TRUE, advance(off))
    ELSE Found(FALSE, off)

extract_token(toks, off, expected) ==
    IF ~InRange(toks, off) THEN OutOfRange(off)
    ELSE IF ~(toks[off].type \in expected) THEN Throw("Unexpected token ", <<toks[off].value>>, off)
    ELSE Text(toks[off].value, advance(off))

\* match_pattern with the fold evaluated without short-circuit: every
\* position of the pattern is read, whether or not an earlier one matched.
match_pattern_eager(toks, off, expected) ==
    IF \E i \in 1..Len(expected) : ~InRange(toks, off + i - 1) THEN OutOfRange(Len(toks) + 1)
    ELSE Found(\A i \in 1..Len(expected) : toks[off + i - 1].type = expected[i], off)

\* The fold (tokens[i++].type == expected) && ... stops at the first
\* mismatch: position off + k - 1 is read only if the k - 1 before it matched.
RECURSIVE match_pattern(_, _, _)
match_pattern(toks, off, expected) ==
    IF expected = <<>> THEN Found(TRUE, off)
    ELSE IF ~InRange(toks, off) THEN OutOfRange(off)
    ELSE IF toks[off].type # Head(expected) THEN Found(FALSE, off)
    ELSE match_pattern(toks, off + 1, Tail(expected))


\* A callee's exception, or its undefined behaviour or divergence, ends the
\* caller too (nothing in the file catches); otherwise the caller goes on
\* with what the callee returned.
Then(r, continue(_)) == CHOOSE out \in {IF returned.kind # "ok" THEN returned ELSE continue(returned) : returned \in {r}} : TRUE

(***************************************************************************)
(* Expressions.                                                            *)
(***************************************************************************)
RECURSIVE parse_expression(_, _)
RECURSIVE parse_binary_expression(_, _, _)
RECURSIVE binary_loop(_, _, _, _)
RECURSIVE parse_unary_expression(_, _)
RECURSIVE postfix_loop(_, _, _)
RECURSIVE function_call_loop(_, _, _)

\* binary_loop with the right operand parsed at the operator's precedence
\* plus one: the conventional left-associative climb.
binary_loop_left_associative(toks, off, min_precedence, lhs) ==
    IF ~InRange(toks, off) THEN OutOfRange(off)
    ELSE LET op == toks[off].value IN
         IF ~(op \in DOMAIN operator_precedences /\ operator_precedences[op] >= min_precedence) THEN Ok(lhs, off)
         ELSE Then(parse_binary_expression(toks, advance(off), operator_precedences[op] + 1), LAMBDA rhs :
              binary_loop(toks, rhs.off, min_precedence, BinaryOperation(op, lhs, rhs.node)))

\* The for loop of parse_binary_expression, entered with the cursor at off
\* and the left operand built so far.
binary_loop(toks, off, min_precedence, lhs) ==
    IF ~InRange(toks, off) THEN OutOfRange(off)
    ELSE LET op == toks[off].value IN
         IF ~(op \in DOMAIN operator_precedences /\ operator_precedences[op] >= min_precedence) THEN Ok(lhs, off)
         ELSE IF advance(off) = off THEN Diverge(off)
         ELSE Then(parse_binary_expression(toks, advance(off), operator_precedences[op]), LAMBDA rhs :
              binary_loop(toks, rhs.off, min_precedence, BinaryOperation(op, lhs, rhs.node)))

parse_binary_expression(toks, off, min_precedence) ==
    Then(parse_unary_expression(toks, off), LAMBDA lhs :
    binary_loop(toks, lhs.off, min_precedence, lhs.node))

\* Entered after the "(".
parse_parenthesized_expression(toks, off) ==
    Then(parse_expression(toks, off), LAMBDA expression :
    Then(extract_token(toks, expression.off, {"RPAREN"}), LAMBDA rparen :
    Ok(ParenthesizedExpression(expression.node), rparen.off)))

parse_primary_expression(toks, off) ==
    LET literal(type, node(_)) == Then(extract_token(toks, off, {type}), LAMBDA t : Ok(node(t.text), t.off)) IN
    Then(check_token(toks, off, {"INTEGER_LITERAL"}), LAMBDA int :
    IF int.found THEN literal("INTEGER_LITERAL", IntLiteral)
    ELSE IF check_token(toks, off, {"FLOAT_LITERAL"}).found THEN literal("FLOAT_LITERAL", FloatLiteral)
    ELSE IF check_token(toks, off, {"CHAR_LITERAL"}).found THEN literal("CHAR_LITERAL", CharLiteral)
    ELSE IF check_token(toks, off, {"STRING_LITERAL"}).found THEN literal("STRING_LITERAL", StringLiteral)
    ELSE IF check_token(toks, off, {"BOOL_LITERAL"}).found THEN literal("BOOL_LITERAL", BoolLiteral)
    ELSE IF check_token(toks, off, {"IDENTIFIER"}).found THEN literal("IDENTIFIER", IdentifierExpression)
    ELSE IF match_token(toks, off, {"LPAREN"}).found THEN parse_parenthesized_expression(toks, match_token(toks, off, {"LPAREN"}).off)
    ELSE Throw("Unexpected token ", <<toks[off].value>>, off))

\* The while (true) loop of parse_function_call_expression.
function_call_loop(toks, off, args) ==
    Then(parse_expression(toks, off), LAMBDA arg :
    Then(match_token(toks, arg.off, {"COMMA"}), LAMBDA more :
    IF ~more.found THEN Ok(Node("arguments", "", Append(args, arg.node)), more.off)
    ELSE Then(extract_token(toks, more.off, {"COMMA"}), LAMBDA comma :
         IF comma.off = off THEN Diverge(off)
         ELSE function_call_loop(toks, comma.off, Append(args, arg.node)))))

\* Entered after the "(" of the call; node.kids is the vector args.
parse_function_call_expression(toks, off) ==
    Then(match_token(toks, off, {"RPAREN"}), LAMBDA empty :
    Then(IF empty.found THEN Ok(Node("arguments", "", <<>>), empty.off) ELSE function_call_loop(toks, off, <<>>), LAMBDA args :
    Then(extract_token(toks, args.off, {"RPAREN"}), LAMBDA rparen :
    Ok(args.node, rparen.off))))

\* Entered after the "[" of the subscript.
parse_subscript_expression(toks, off) ==
    Then(parse_expression(toks, off), LAMBDA index :
    Then(extract_token(toks, index.off, {"RBRACKET"}), LAMBDA rbracket :
    Ok(index.node, rbracket.off)))

\* The while (true) loop of parse_postfix_expression.
postfix_loop(toks, off, base) ==
    Then(match_token(toks, off, {"INCREMENT"}), LAMBDA increment :
    IF increment.found
    THEN IF increment.off = off THEN Diverge(off)
         ELSE postfix_loop(toks, increment.off, PostfixIncrementExpression(base))
    ELSE Then(match_token(toks, off, {"DECREMENT"}), LAMBDA decrement :
    IF decrement.found
    THEN IF decrement.off = off THEN Diverge(off)
         ELSE postfix_loop(toks, decrement.off, PostfixDecrementExpression(base))
    ELSE Then(match_token(toks, off, {"LPAREN"}), LAMBDA lparen :
    IF lparen.found
    THEN Then(parse_function_call_expression(toks, lparen.off), LAMBDA args :
         IF args.off = off THEN Diverge(off)
         ELSE postfix_loop(toks, args.off, FunctionCallExpression(base, args.node.kids)))
    ELSE Then(match_token(toks, off, {"LBRACKET"}), LAMBDA lbracket :
    IF lbracket.found
    THEN Then(parse_subscript_expression(toks, lbracket.off), LAMBDA index :
         IF index.off = off THEN Diverge(off)
         ELSE postfix_loop(toks, index.off, SubscriptExpression(base, index.node)))
    ELSE Ok(base, off)))))

parse_postfix_expression(toks, off) ==
    Then(parse_primary_expression(toks, off), LAMBDA base :
    postfix_loop(toks, base.off, base.node))

parse_unary_expression(toks, off) ==
    IF ~InRange(toks, off) THEN OutOfRange(off)
    ELSE LET op == toks[off].value IN
         IF op \in unary_operators
         THEN IF advance(off) = off THEN Diverge(off)
              ELSE Then(parse_unary_expression(toks, advance(off)), LAMBDA operand :
                   Ok(PrefixExpression(op, operand.node), operand.off))
         ELSE parse_postfix_expression(toks, off)

parse_expression(toks, off) == parse_binary_expression(toks, off, 0)

(***************************************************************************)
(* Declarators and variable declarations.                                  *)
(***************************************************************************)
parse_declarator(toks, off) ==
    Then(match_pattern(toks, off, <<"MULTIPLY", "IDENTIFIER">>), LAMBDA ptr :
    IF ptr.found
    THEN Then(extract_token(toks, off, {"MULTIPLY"}), LAMBDA star :
         Then(extract_token(toks, star.off, {"IDENTIFIER"}), LAMBDA name :
         Ok(PtrDeclarator(name.text), name.off)))
    ELSE Then(match_pattern(toks, off, <<"IDENTIFIER">>), LAMBDA noptr :
    IF noptr.found
    THEN Then(extract_token(toks, off, {"IDENTIFIER"}), LAMBDA name :
         Ok(NoPtrDeclarator(name.text), name.off))
    ELSE Throw("Unexpected token ", <<toks[off].value>>, off)))

parse_init_declarator(toks, off) ==
    Then(parse_declarator(toks, off), LAMBDA declarator :
    Then(match_token(toks, declarator.off, {"ASSIGNMENT"}), LAMBDA assignment :
    IF ~assignment.found THEN Ok(InitDeclarator(declarator.node, Null), assignment.off)
    ELSE Then(parse_expression(toks, assignment.off), LAMBDA initializer :
         Ok(InitDeclarator(declarator.node, initializer.node), initializer.off))))

RECURSIVE declarator_list_loop(_, _, _, _)

\* declarator_list_loop that ends the list at anything but a comma, the
\* terminator being optional.
declarator_list_loop_lenient(toks, off, type, declarator_list) ==
    Then(parse_init_declarator(toks, off), LAMBDA init_declarator :
    Then(match_token(toks, init_declarator.off, {"COMMA"}), LAMBDA comma :
    IF comma.found THEN declarator_list_loop(toks, comma.off, type, Append(declarator_list, init_declarator.node))
    ELSE Then(match_token(toks, comma.off, {"SEMICOLON"}), LAMBDA semicolon :
    Ok(VarDeclaration(type, Append(declarator_list, init_declarator.node)), semicolon.off))))

\* The while (true) loop of parse_var_declaration.
declarator_list_loop(toks, off, type, declarator_list) ==
    Then(parse_init_declarator(toks, off), LAMBDA init_declarator :
    Then(match_token(toks, init_declarator.off, {"COMMA"}), LAMBDA comma :
    IF comma.found
    THEN IF comma.off = off THEN Diverge(off)
         ELSE declarator_list_loop(toks, comma.off, type, Append(declarator_list, init_declarator.node))
    ELSE Then(match_token(toks, comma.off, {"SEMICOLON"}), LAMBDA semicolon :
    IF semicolon.found THEN Ok(VarDeclaration(type, Append(declarator_list, init_declarator.node)), semicolon.off)
    ELSE Throw("Unexpected token ", <<toks[semicolon.off].value>>, semicolon.off))))

parse_var_declaration(toks, off) ==
    Then(extract_token(toks, off, {"TYPE"}), LAMBDA type :
    declarator_list_loop(toks, type.off, type.text, <<>>))

(***************************************************************************)
(* Statements.                                                             *)
(***************************************************************************)
RECURSIVE parse_statement(_, _)
RECURSIVE compound_loop(_, _, _)
RECURSIVE elif_loop(_, _, _)

parse_break_statement(toks, off) ==
    Then(extract_token(toks, off, {"SEMICOLON"}), LAMBDA semicolon :
    Ok(BreakStatement, semicolon.off))

parse_continue_statement(toks, off) ==
    Then(extract_token(toks, off, {"SEMICOLON"}), LAMBDA semicolon :
    Ok(ContinueStatement, semicolon.off))

parse_return_statement(toks, off) ==
    Then(parse_expression(toks, off), LAMBDA expression :
    Then(extract_token(toks, expression.off, {"SEMICOLON"}), LAMBDA semicolon :
    Ok(ReturnStatement(expression.node), semicolon.off)))

parse_jump_statement(toks, off) ==
    Then(match_token(toks, off, {"BREAK"}), LAMBDA break :
    IF break.found THEN parse_break_statement(toks, break.off)
    ELSE Then(match_token(toks, off, {"CONTINUE"}), LAMBDA continue :
    IF continue.found THEN parse_continue_statement(toks, continue.off)
    ELSE Then(extract_token(toks, off, {"RETURN"}), LAMBDA return :
    parse_return_statement(toks, return.off))))

parse_declaration_statement(toks, off) ==
    Then(parse_var_declaration(toks, off), LAMBDA declaration :
    Ok(DeclarationStatement(declaration.node), declaration.off))

parse_expression_statement(toks, off) ==
    Then(parse_expression(toks, off), LAMBDA expression :
    Then(extract_token(toks, expression.off, {"SEMICOLON"}), LAMBDA semicolon :
    Ok(ExpressionStatement(expression.node), semicolon.off)))

\* The while loop of parse_compound_statement.
compound_loop(toks, off, statements) ==
    Then(match_token(toks, off, {"RBRACE"}), LAMBDA rbrace :
    IF rbrace.found THEN Ok(CompoundStatement(statements), rbrace.off)
    ELSE Then(parse_statement(toks, off), LAMBDA statement :
         IF statement.off = off THEN Diverge(off)
         ELSE compound_loop(toks, statement.off, Append(statements, statement.node))))

\* Entered after the "{".
parse_compound_statement(toks, off) == compound_loop(toks, off, <<>>)

\* "(" condition ")" statement, as parse_conditional_statement and
\* parse_while_statement read it; node is the pair.
condition_and_statement(toks, off) ==
    Then(extract_token(toks, off, {"LPAREN"}), LAMBDA lparen :
    Then(parse_expression(toks, lparen.off), LAMBDA condition :
    Then(extract_token(toks, condition.off, {"RPAREN"}), LAMBDA rparen :
    Then(parse_statement(toks, rparen.off), LAMBDA statement :
    Ok(Branch(condition.node, statement.node), statement.off)))))

\* The while (match_token(ELIF)) loop; node.kids is the vector elif_branches.
elif_loop(toks, off, elif_branches) ==
    Then(match_token(toks, off, {"ELIF"}), LAMBDA elif :
    IF ~elif.found THEN Ok(Node("elif_branches", "", elif_branches), elif.off)
    ELSE Then(condition_and_statement(toks, elif.off), LAMBDA elif_branch :
         IF elif_branch.off = off THEN Diverge(off)
         ELSE elif_loop(toks, elif_branch.off, Append(elif_branches, elif_branch.node))))

\* Entered after the "if".
parse_conditional_statement(toks, off) ==
    Then(condition_and_statement(toks, off), LAMBDA if_branch :
    Then(elif_loop(toks, if_branch.off, <<>>), LAMBDA elif_branches :
    Then(match_token(toks, elif_branches.off, {"ELSE"}), LAMBDA else :
    IF ~else.found THEN Ok(ConditionalStatement(if_branch.node, elif_branches.node.kids, Null), else.off)
    ELSE Then(parse_statement(toks, else.off), LAMBDA else_branch :
         Ok(ConditionalStatement(if_branch.node, elif_branches.node.kids, else_branch.node), else_branch.off)))))

\* Entered after the "while".
parse_while_statement(toks, off) ==
    Then(condition_and_statement(toks, off), LAMBDA body :
    Ok(WhileStatement(body.node.kids[1], body.node.kids[2]), body.off))

\* Entered after the "repeat".
parse_repeat_statement(toks, off) ==
    Then(parse_statement(toks, off), LAMBDA statement :
    Ok(RepeatStatement(statement.node), statement.off))

\* parse_for_statement reading a condition and a body as "while" does.
parse_for_statement_as_while(toks, off) ==
    Then(condition_and_statement(toks, off), LAMBDA body :
    Ok(ForStatement, body.off))

parse_for_statement(toks, off) == Ok(ForStatement, off)

\* parse_loop_statement that tests for "for" with check_token: the keyword
\* is left in place.
parse_loop_statement_keeps_for(toks, off) ==
    Then(match_token(toks, off, {"WHILE"}), LAMBDA while :
    IF while.found THEN parse_while_statement(toks, while.off)
    ELSE Then(check_token(toks, off, {"FOR"}), LAMBDA for :
    IF for.found THEN parse_for_statement(toks, for.off)
    ELSE Then(extract_token(toks, off, {"REPEAT"}), LAMBDA repeat :
    parse_repeat_statement(toks, repeat.off))))


parse_loop_statement(toks, off) ==
    Then(match_token(toks, off, {"WHILE"}), LAMBDA while :
    IF while.found THEN parse_while_statement(toks, while.off)
    ELSE Then(match_token(toks, off, {"FOR"}), LAMBDA for :
    IF for.found THEN parse_for_statement(toks, for.off)
    ELSE Then(extract_token(toks, off, {"REPEAT"}), LAMBDA repeat :
    parse_repeat_statement(toks, repeat.off))))

parse_statement(toks, off) ==
    Then(match_token(toks, off, {"LBRACE"}), LAMBDA lbrace :
    IF lbrace.found THEN parse_compound_statement(toks, lbrace.off)
    ELSE Then(match_token(toks, off, {"IF"}), LAMBDA if :
    IF if.found THEN parse_conditional_statement(toks, if.off)
    ELSE IF check_token(toks, off, {"WHILE", "FOR", "REPEAT"}).found THEN parse_loop_statement(toks, off)
    ELSE IF check_token(toks, off, {"RETURN", "BREAK", "CONTINUE"}).found THEN parse_jump_statement(toks, off)
    ELSE IF check_token(toks, off, {"TYPE"}).found THEN parse_declaration_statement(toks, off)
    ELSE parse_expression_statement(toks, off)))

(***************************************************************************)
(* Function declarations and the declaration dispatch.                     *)
(*                                                                         *)
(* parse_parameter_declaration passes extract_token(TYPE) and              *)
(* parse_init_declarator() as two arguments of one call: C++ leaves the    *)
(* order in which they run to the compiler, and both move the cursor.      *)
(* `order` is the order the build chose.                                   *)
(***************************************************************************)
EvaluationOrders == {"left_to_right", "right_to_left"}

parse_parameter_declaration(toks, off, order) ==
    IF order = "left_to_right"
    THEN Then(extract_token(toks, off, {"TYPE"}), LAMBDA type :
         Then(parse_init_declarator(toks, type.off), LAMBDA init_declarator :
         Ok(ParameterDeclaration(type.text, init_declarator.node), init_declarator.off)))
    ELSE Then(parse_init_declarator(toks, off), LAMBDA init_declarator :
         Then(extract_token(toks, init_declarator.off, {"TYPE"}), LAMBDA type :
         Ok(ParameterDeclaration(type.text, init_declarator.node), type.off)))

\* The while (true) loop of parse_function_declaration; node.kids is args.
RECURSIVE parameter_loop(_, _, _, _)
parameter_loop(toks, off, args, order) ==
    Then(parse_parameter_declaration(toks, off, order), LAMBDA parameter :
    IF ~InRange(toks, parameter.off) THEN OutOfRange(parameter.off)
    ELSE IF toks[parameter.off].value = ","
    THEN IF advance(parameter.off) = off THEN Diverge(off)
         ELSE parameter_loop(toks, advance(parameter.off), Append(args, parameter.node), order)
    ELSE IF toks[parameter.off].value = ")" THEN Ok(Node("parameters", "", Append(args, parameter.node)), advance(parameter.off))
    ELSE Throw("Missing closing parenthesis", <<>>, parameter.off))

parse_function_declaration(toks, off, order) ==
    Then(extract_token(toks, off, {"TYPE"}), LAMBDA type :
    Then(parse_declarator(toks, type.off), LAMBDA declarator :
    Then(extract_token(toks, declarator.off, {"LPAREN"}), LAMBDA lparen :
    Then(match_token(toks, lparen.off, {"RPAREN"}), LAMBDA rparen :
    Then(IF rparen.found THEN Ok(Node("parameters", "", <<>>), rparen.off) ELSE parameter_loop(toks, lparen.off, <<>>, order), LAMBDA args :
    Then(match_token(toks, args.off, {"LBRACE"}), LAMBDA lbrace :
    IF lbrace.found
    THEN Then(parse_compound_statement(toks, lbrace.off), LAMBDA body :
         Ok(FuncDeclaration(type.text, declarator.node, args.node.kids, body.node), body.off))
    ELSE Then(match_token(toks, lbrace.off, {"SEMICOLON"}), LAMBDA semicolon :
         IF ~semicolon.found THEN Throw("Unexpected token", <<>>, semicolon.off)
         ELSE Ok(FuncDeclaration(type.text, declarator.node, args.node.kids, Null), semicolon.off))))))))

\* a || b of two match_pattern calls: b runs only if a is false.
either_pattern(toks, off, a, b) ==
    Then(match_pattern(toks, off, a), LAMBDA first :
    IF first.found THEN first ELSE match_pattern(toks, off, b))

parse_declaration(toks, off, order) ==
    Then(either_pattern(toks, off, <<"TYPE", "IDENTIFIER", "LPAREN">>, <<"TYPE", "MULTIPLY", "IDENTIFIER", "LPAREN">>), LAMBDA function :
    IF function.found THEN parse_function_declaration(toks, off, order)
    ELSE Then(either_pattern(toks, off, <<"TYPE", "IDENTIFIER">>, <<"TYPE", "MULTIPLY", "IDENTIFIER">>), LAMBDA variable :
    IF variable.found THEN parse_var_declaration(toks, off)
    ELSE Throw("Unexpected token ", <<toks[off].value>>, off)))

(***************************************************************************)
(* Parser::parse: the driver loop, one step per iteration.                 *)
(*                                                                         *)
(* status is "running" inside parse(), "returned" once it has returned     *)
(* `unit`, "failed" once an exception has left it (`what` is its message   *)
(* and offset the cursor at the throw), "ub" after a read outside the      *)
(* vector and "diverge" once the parser is in a loop it cannot leave.      *)
(***************************************************************************)
Outcome(kind) == IF kind = "throw" THEN "failed" ELSE kind

\* while (!match_token(Token::END)) fails; return the TranslationUnit.
parse_return ==
    /\ status = "running"
    /\ match_token(tokens, offset, {"END"}).kind = "ok"
    /\ match_token(tokens, offset, {"END"}).found
    /\ offset' = match_token(tokens, offset, {"END"}).off
    /\ unit' = TranslationUnit(declarations)
    /\ status' = "returned"
    /\ UNCHANGED <<tokens, declarations, what, evaluation_order>>

\* One iteration: declarations.push_back(parse_declaration()).
parse_iteration ==
    /\ status = "running"
    /\ \E end \in {match_token(tokens, offset, {"END"})} :
         IF end.kind # "ok"
         THEN /\ status' = Outcome(end.kind)
              /\ UNCHANGED <<offset, declarations, what>>
         ELSE /\ ~end.found
              /\ \E declaration \in {parse_declaration(tokens, offset, evaluation_order)} :
                   IF declaration.kind # "ok"
                   THEN /\ status' = Outcome(declaration.kind)
                        /\ offset' = declaration.off
                        /\ what' = declaration.what
                        /\ UNCHANGED declarations
                   ELSE IF declaration.off = offset
                   THEN /\ status' = "diverge"
                        /\ UNCHANGED <<offset, declarations, what>>
                   ELSE /\ declarations' = Append(declarations, declaration.node)
                        /\ offset' = declaration.off
                        /\ UNCHANGED <<status, what>>
    /\ UNCHANGED <<tokens, unit, evaluation_order>>

\* parse() as one call: the loop above run to its end on toks, from the
\* cursor off with the declarations collected so far.
RECURSIVE parse_from(_, _, _, _)
parse_from(toks, off, decls, order) ==
    Then(match_token(toks, off, {"END"}), LAMBDA end :
    IF end.found THEN Ok(TranslationUnit(decls), end.off)
    ELSE Then(parse_declaration(toks, off, order), LAMBDA declaration :
         IF declaration.off = off THEN Diverge(off)
         ELSE parse_from(toks, declaration.off, Append(decls, declaration.node), order)))

parse(toks, order) == parse_from(toks, 1, <<>>, order)

(***************************************************************************)
(* The token vectors parse() is run on.  A tag with one spelling carries   *)
(* that spelling; TYPE, IDENTIFIER and the literal tags carry any text,    *)
(* and the text of a string literal may spell an operator.  Every vector   *)
(* ends with its only END token.                                           *)
(***************************************************************************)
Spelling == ("LPAREN" :> "(") @@ ("RPAREN" :> ")") @@ ("LBRACE" :> "{") @@ ("RBRACE" :> "}") @@ ("LBRACKET" :> "[") @@ ("RBRACKET" :> "]") @@ ("COMMA" :> ",") @@ ("SEMICOLON" :> ";") @@ ("ASSIGNMENT" :> "=") @@ ("MULTIPLY" :> "*") @@ ("INCREMENT" :> "++") @@ ("DECREMENT" :> "--") @@ ("IF" :> "if") @@ ("ELIF" :> "elif") @@ ("ELSE" :> "else") @@ ("WHILE" :> "while") @@ ("FOR" :> "for") @@ ("REPEAT" :> "repeat") @@ ("RETURN" :> "return") @@ ("BREAK" :> "break") @@ ("CONTINUE" :> "continue") @@ ("END" :> "EOF")

Fixed(type) == Token(type, Spelling[type])

\* The operators whose tag the parser never names: one tag per spelling.
OperatorTag == ("PLUS" :> "+") @@ ("MINUS" :> "-") @@ ("DIVIDE" :> "/") @@ ("MODULO" :> "%") @@ ("POWER" :> "^") @@ ("AMPERSAND" :> "&") @@ ("NOT" :> "!") @@ ("OR" :> "||") @@ ("AND" :> "&&") @@ ("EQUAL" :> "==") @@ ("NOT_EQUAL" :> "!=") @@ ("LESS" :> "<") @@ ("LESS_EQUAL" :> "<=") @@ ("GREATER" :> ">") @@ ("GREATER_EQUAL" :> ">=") @@ ("PLUS_ASSIGNMENT" :> "+=") @@ ("MINUS_ASSIGNMENT" :> "-=") @@ ("MULTIPLY_ASSIGNMENT" :> "*=") @@ ("DIVIDE_ASSIGNMENT" :> "/=") @@ ("MODULO_ASSIGNMENT" :> "%=") @@ ("POWER_ASSIGNMENT" :> "**=")

Operator(text) == IF \E type \in DOMAIN Spelling : Spelling[type] = text THEN Fixed(CHOOSE type \in DOMAIN Spelling : Spelling[type] = text) ELSE Token(CHOOSE type \in DOMAIN OperatorTag : OperatorTag[type] = text, text)

END == Fixed("END")

TYPE_int == Token("TYPE", "int")

IDENTIFIER(text) == Token("IDENTIFIER", text)

INTEGER_LITERAL(text) == Token("INTEGER_LITERAL", text)

STRING_LITERAL(text) == Token("STRING_LITERAL", text)

Literals == {INTEGER_LITERAL("1"), Token("FLOAT_LITERAL", "1.5"), Token("CHAR_LITERAL", "c"), STRING_LITERAL("s"), STRING_LITERAL("-"), Token("BOOL_LITERAL", "true")}

AllTokens == {Fixed(type) : type \in DOMAIN Spelling \ {"END"}} \cup {Operator(OperatorTag[type]) : type \in DOMAIN OperatorTag} \cup Literals \cup {TYPE_int, IDENTIFIER("a")}

MaxLen == 3

MaxExprLen == 3

MaxBodyLen == 2

SeqsUpTo(S, n) == UNION {[1..k -> S] : k \in 0..n}

L(types) == [i \in DOMAIN types |-> IF types[i] \in DOMAIN Spelling THEN Fixed(types[i]) ELSE IF types[i] = "TYPE" THEN TYPE_int ELSE IF types[i] \in {"0", "1", "2", "3"} THEN INTEGER_LITERAL(types[i]) ELSE IF types[i] \in DOMAIN operator_precedences \cup unary_operators THEN Operator(types[i]) ELSE IDENTIFIER(types[i])]

ShortAlphabet == {TYPE_int, IDENTIFIER("a"), INTEGER_LITERAL("1"), STRING_LITERAL("-"), Fixed("LPAREN"), Fixed("RPAREN"), Fixed("LBRACE"), Fixed("RBRACE"), Fixed("SEMICOLON"), Fixed("COMMA"), Fixed("ASSIGNMENT"), Fixed("MULTIPLY")}

ShortInputs == SeqsUpTo(ShortAlphabet, MaxLen)

ExprAlphabet == {IDENTIFIER("a"), INTEGER_LITERAL("1"), STRING_LITERAL("-"), Fixed("LPAREN"), Fixed("RPAREN"), Fixed("COMMA"), Fixed("LBRACKET"), Fixed("RBRACKET"), Operator("-")}

InitializerOf(e) == L(<<"TYPE", "x", "ASSIGNMENT">>) \o e \o <<Fixed("SEMICOLON")>>

ExprInputs == {InitializerOf(e) : e \in SeqsUpTo(ExprAlphabet, MaxExprLen)}

Operands == {INTEGER_LITERAL("1"), IDENTIFIER("a"), STRING_LITERAL("-")}

BinaryInputs == {InitializerOf(<<abc[1], Operator(op1), abc[2], Operator(op2), abc[3]>>) : abc \in [1..3 -> Operands], op1 \in DOMAIN operator_precedences, op2 \in DOMAIN operator_precedences}

BodyAlphabet == {TYPE_int, IDENTIFIER("a"), Fixed("SEMICOLON"), Fixed("LBRACE"), Fixed("RBRACE"), Fixed("LPAREN"), Fixed("RPAREN"), Fixed("FOR"), Fixed("IF"), Fixed("ELSE"), Fixed("WHILE"), Fixed("REPEAT"), Fixed("RETURN"), Fixed("BREAK")}

BodyOf(b) == L(<<"TYPE", "f", "LPAREN", "RPAREN", "LBRACE">>) \o b \o <<Fixed("RBRACE")>>

BodyInputs == {BodyOf(b) : b \in SeqsUpTo(BodyAlphabet, MaxBodyLen)}

ProgramConditional == L(<<"TYPE", "f", "LPAREN", "RPAREN", "LBRACE", "IF", "LPAREN", "a", "RPAREN", "b", "SEMICOLON", "ELIF", "LPAREN", "c", "RPAREN", "d", "SEMICOLON", "ELIF", "LPAREN", "a", "RPAREN", "LBRACE", "RBRACE", "ELSE", "e", "SEMICOLON", "RBRACE">>)

ProgramLoops == L(<<"TYPE", "f", "LPAREN", "RPAREN", "LBRACE", "WHILE", "LPAREN", "a", "RPAREN", "LBRACE", "FOR", "b", "SEMICOLON", "BREAK", "SEMICOLON", "CONTINUE", "SEMICOLON", "RBRACE", "REPEAT", "a", "INCREMENT", "SEMICOLON", "RBRACE">>)

ProgramDefaultArgument == L(<<"TYPE", "f", "LPAREN", "TYPE", "a", "ASSIGNMENT", "1", "RPAREN", "SEMICOLON", "TYPE", "x", "SEMICOLON">>)

Samples == {
    ProgramConditional,
    ProgramLoops,
    ProgramDefaultArgument,
    L(<<"TYPE", "f", "LPAREN", "RPAREN", "SEMICOLON">>),
    L(<<"TYPE", "MULTIPLY", "p", "ASSIGNMENT", "1", "COMMA", "q", "SEMICOLON">>),
    L(<<"TYPE", "f", "LPAREN", "TYPE", "a", "COMMA", "TYPE", "MULTIPLY", "b", "ASSIGNMENT", "1", "RPAREN", "LBRACE", "RETURN", "a", "SEMICOLON", "RBRACE">>),
    L(<<"TYPE", "x", "ASSIGNMENT", "a", "LBRACKET", "0", "RBRACKET", "LPAREN", "RPAREN", "SEMICOLON">>),
    L(<<"TYPE", "x", "ASSIGNMENT", "a", "LBRACKET", "0", "RBRACKET", "LPAREN", "RPAREN", "RPAREN", "SEMICOLON">>),
    L(<<"TYPE", "x", "ASSIGNMENT", "f", "LPAREN", "a", "COMMA", "b", "RPAREN", "SEMICOLON">>),
    L(<<"TYPE", "x", "ASSIGNMENT", "f", "LPAREN", "a", "COMMA", "COMMA", "b", "RPAREN", "SEMICOLON">>),
    L(<<"TYPE", "f", "LPAREN", "RPAREN", "LBRACE", "TYPE", "y", "ASSIGNMENT", "-", "!", "a", "COMMA", "z", "SEMICOLON", "y", "ASSIGNMENT", "LPAREN", "a", "+", "1", "RPAREN", "*", "2", "SEMICOLON", "RBRACE">>),
    L(<<"TYPE", "x", "ASSIGNMENT", "1", "-", "2", "-", "3", "SEMICOLON">>),
    L(<<"TYPE", "x", "ASSIGNMENT", "1", "+", "2", "*", "3", "SEMICOLON">>),
    L(<<"TYPE", "x">>)
    }

\* s with its i-th token replaced by t.
Substitute(s, i, t) == [s EXCEPT ![i] = t]

\* s without its i-th token.
Delete(s, i) == SubSeq(s, 1, i - 1) \o SubSeq(s, i + 1, Len(s))

SampleInputs == Samples \cup {Substitute(s, i, t) : <<s, i, t>> \in {x \in Samples \X (1..30) \X AllTokens : x[2] <= Len(x[1])}} \cup {Delete(s, i) : <<s, i>> \in {x \in Samples \X (1..30) : x[2] <= Len(x[1])}}

Inputs == {s \o <<END>> : s \in ShortInputs \cup ExprInputs \cup BinaryInputs \cup BodyInputs \cup SampleInputs}

Init ==
    /\ tokens \in Inputs
    /\ evaluation_order \in EvaluationOrders
    /\ offset = 1
    /\ declarations = <<>>
    /\ status = "running"
    /\ what = NoMessage
    /\ unit = Null

Next == parse_return \/ parse_iteration

Spec == Init /\ [][Next]_vars

\* parse() is one synchronous call: while it is running it takes its next step.
FairSpec == Spec /\ WF_vars(Next)

(***************************************************************************)
(* What the claims are stated with.                                        *)
(***************************************************************************)
Finished == status \in {"returned", "failed"}

\* The vector of "int x = e ;" and the unit parse() returns for it.
Program(e) == InitializerOf(e) \o <<END>>

UnitOfInitializer(e) == TranslationUnit(<<VarDeclaration("int", <<InitDeclarator(NoPtrDeclarator("x"), e)>>)>>)

\* The primary expression a literal or identifier token stands for.
PrimaryNode(t) == Node(CASE t.type = "INTEGER_LITERAL" -> "IntLiteral" [] t.type = "FLOAT_LITERAL" -> "FloatLiteral" [] t.type = "CHAR_LITERAL" -> "CharLiteral" [] t.type = "STRING_LITERAL" -> "StringLiteral" [] t.type = "BOOL_LITERAL" -> "BoolLiteral" [] t.type = "IDENTIFIER" -> "IdentifierExpression", t.value, <<>>)

PrimaryTypes == {"INTEGER_LITERAL", "FLOAT_LITERAL", "CHAR_LITERAL", "STRING_LITERAL", "BOOL_LITERAL", "IDENTIFIER"}

\* A node with the texts it and its descendants carry blanked.
RECURSIVE Shape(_)
Shape(n) == Node(n.kind, "", [i \in DOMAIN n.kids |-> Shape(n.kids[i])])

\* The vector with the same type tags and one fixed text per tag.
CanonicalText == ("TYPE" :> "int") @@ ("IDENTIFIER" :> "a") @@ ("INTEGER_LITERAL" :> "1") @@ ("FLOAT_LITERAL" :> "1.5") @@ ("CHAR_LITERAL" :> "c") @@ ("STRING_LITERAL" :> "s") @@ ("BOOL_LITERAL" :> "true")

Canonical(toks) == [i \in DOMAIN toks |-> IF toks[i].type \in DOMAIN CanonicalText THEN Token(toks[i].type, CanonicalText[toks[i].type]) ELSE toks[i]]

(***************************************************************************)
(* C1.  A call with an empty argument list is accepted: for a postfix base *)
(* b, "int x = b ( ) ;" parses to FunctionCallExpression(b, []), the call  *)
(* consuming the "(" and one ")"; in particular a[0]() is the call of the  *)
(* subscript a[0] with no arguments.                                       *)
(***************************************************************************)
PostfixBases == {
    [tokens |-> L(<<"a">>), node |-> IdentifierExpression("a")],
    [tokens |-> L(<<"1">>), node |-> IntLiteral("1")],
    [tokens |-> L(<<"a", "LBRACKET", "0", "RBRACKET">>), node |-> SubscriptExpression(IdentifierExpression("a"), IntLiteral("0"))]
    }

C1_EmptyArgumentListAccepted ==
    \A base \in PostfixBases :
        (Finished /\ tokens = Program(base.tokens \o L(<<"LPAREN", "RPAREN">>)))
            => (status = "returned" /\ unit = UnitOfInitializer(FunctionCallExpression(base.node, <<>>)))

(***************************************************************************)
(* C2.  An argument list of n >= 2 expressions with one COMMA between each *)
(* adjacent pair, closed by ")", is accepted and yields the call whose     *)
(* arguments are those expressions in source order.                        *)
(***************************************************************************)
Arguments == {IDENTIFIER("a"), IDENTIFIER("b"), INTEGER_LITERAL("1")}

CommaSeparated(args) == [i \in 1..(2 * Len(args) - 1) |-> IF i % 2 = 1 THEN args[(i + 1) \div 2] ELSE Fixed("COMMA")]

C2_CommaSeparatedArgumentsAccepted ==
    \A n \in 2..3 : \A args \in [1..n -> Arguments] :
        (Finished /\ tokens = Program(L(<<"f", "LPAREN">>) \o CommaSeparated(args) \o L(<<"RPAREN">>)))
            => (status = "returned" /\ unit = UnitOfInitializer(FunctionCallExpression(IdentifierExpression("f"), [i \in 1..n |-> PrimaryNode(args[i])])))

(***************************************************************************)
(* C3.  Binary grouping follows the precedence table with right grouping   *)
(* on ties: "a op1 b op2 c" parses as op1(a, op2(b, c)) when               *)
(* precedence(op2) >= precedence(op1) and as op2(op1(a, b), c) otherwise.  *)
(* The operands are the literal and identifier tokens parse_unary_expression *)
(* takes as an operand, those whose text is not in unary_operators.        *)
(***************************************************************************)
IsOperand(t) == t.type \in PrimaryTypes /\ t.value \notin unary_operators

IsTableOperator(t) == t.value \in DOMAIN operator_precedences /\ t = Operator(t.value)

Grouped(a, op1, b, op2, c) == IF operator_precedences[op2] >= operator_precedences[op1] THEN BinaryOperation(op1, a, BinaryOperation(op2, b, c)) ELSE BinaryOperation(op2, BinaryOperation(op1, a, b), c)

C3_BinaryGrouping ==
    (/\ Finished
     /\ Len(tokens) = 10
     /\ tokens = Program(SubSeq(tokens, 4, 8))
     /\ \A i \in {4, 6, 8} : IsOperand(tokens[i])
     /\ \A i \in {5, 7} : IsTableOperator(tokens[i]))
        => (/\ status = "returned"
            /\ unit = UnitOfInitializer(Grouped(PrimaryNode(tokens[4]), tokens[5].value, PrimaryNode(tokens[6]), tokens[7].value, PrimaryNode(tokens[8]))))

\* "1 - 2 - 3" has been parsed, to -(1, -(2, 3)).
C3_Witness ==
    /\ status = "returned"
    /\ tokens = Program(L(<<"1", "-", "2", "-", "3">>))
    /\ unit = UnitOfInitializer(BinaryOperation("-", IntLiteral("1"), BinaryOperation("-", IntLiteral("2"), IntLiteral("3"))))

(***************************************************************************)
(* C4.  Every failure of parse() is an error that carries the literal text *)
(* of the token at the cursor where parsing failed.                        *)
(***************************************************************************)
C4_ErrorCarriesTokenText == status = "failed" => what.arg = <<tokens[offset].value>>

(***************************************************************************)
(* C5.  Every ParameterDeclaration of a FuncDeclaration returned by        *)
(* parse() has an absent initializer, and "int f(int a = 1);" is not       *)
(* accepted.                                                               *)
(***************************************************************************)
C5_ParametersHaveNoInitializer ==
    /\ status = "returned" =>
        \A d \in DOMAIN unit.kids : unit.kids[d].kind = "FuncDeclaration" =>
            \A i \in DOMAIN unit.kids[d].kids[2].kids : unit.kids[d].kids[2].kids[i].kids[1].kids[2] = Null
    /\ tokens = ProgramDefaultArgument \o <<END>> => status # "returned"

(***************************************************************************)
(* C6.  No token is read at an index greater than that of the END token,   *)
(* match_pattern's lookahead included, and the END token is consumed only  *)
(* by the termination check of parse(): the cursor passes it only when     *)
(* parse() returns.                                                        *)
(***************************************************************************)
C6_NeverReadsPastEnd ==
    /\ status # "ub"
    /\ offset <= Len(tokens) + 1
    /\ offset = Len(tokens) + 1 => status = "returned"

\* "int a" then END: the lookahead TYPE IDENTIFIER LPAREN has read the END
\* token, and the declaration has failed at it.
C6_Witness ==
    /\ tokens = <<TYPE_int, IDENTIFIER("a"), END>>
    /\ status = "failed"
    /\ offset = 3

(***************************************************************************)
(* C7.  parse() terminates: it eventually returns a TranslationUnit or     *)
(* raises an error, it returns only with the cursor just past the END      *)
(* token, and no loop comes back to its head with the cursor unmoved.      *)
(***************************************************************************)
C7_Terminates ==
    /\ <>Finished
    /\ [](status = "returned" => (offset = Len(tokens) + 1 /\ unit.kind = "TranslationUnit"))
    /\ [](status # "diverge")

\* The conditional with two elif branches and an else, inside a block, has
\* been parsed to the end.
C7_Witness ==
    /\ status = "returned"
    /\ tokens = ProgramConditional \o <<END>>
    /\ Len(unit.kids[1].kids[3].kids[1].kids[2].kids) = 2
    /\ unit.kids[1].kids[3].kids[1].kids[3] # Null

(***************************************************************************)
(* C8.  A variable declaration whose init-declarator is followed by a      *)
(* token that is neither "," nor the terminator is rejected with an error  *)
(* carrying that token's text; "int x" followed by END raises an error     *)
(* with the END token's text and returns no AST.                           *)
(***************************************************************************)
C8_MissingTerminatorRejected ==
    /\ Finished => \A p \in 1..Len(tokens) :
        \A d \in {parse_init_declarator(tokens, p)} :
            (d.kind = "ok" /\ tokens[d.off].type \notin {"COMMA", "SEMICOLON"}) =>
                /\ declarator_list_loop(tokens, p, "int", <<>>) = Throw("Unexpected token ", <<tokens[d.off].value>>, d.off)
                /\ (p > 1 /\ tokens[p - 1].type = "TYPE") => parse_var_declaration(tokens, p - 1) = Throw("Unexpected token ", <<tokens[d.off].value>>, d.off)
    /\ (Finished /\ tokens = <<TYPE_int, IDENTIFIER("x"), END>>) =>
        (status = "failed" /\ what = [msg |-> "Unexpected token ", arg |-> <<END.value>>] /\ unit = Null)

\* "int x" then END has failed at the END token.
C8_Witness ==
    /\ tokens = <<TYPE_int, IDENTIFIER("x"), END>>
    /\ status = "failed"
    /\ what.arg = <<"EOF">>
    /\ unit = Null

(***************************************************************************)
(* C9.  A statement whose leading token is "for" advances the cursor by    *)
(* exactly that token and yields the empty ForStatement, whatever follows; *)
(* the tokens after it are parsed as the next statements of the block.     *)
(***************************************************************************)
C9_ForConsumesOnlyKeyword ==
    \A p \in 1..Len(tokens) : tokens[p].type = "FOR" =>
        /\ parse_statement(tokens, p) = Ok(ForStatement, p + 1)
        /\ compound_loop(tokens, p, <<>>) = compound_loop(tokens, p + 1, <<ForStatement>>)

\* "while (a) { for b ; break ; continue ; }" has been parsed: the block's
\* first statement is the ForStatement and "b ;" is its second.
C9_Witness ==
    /\ status = "returned"
    /\ tokens = ProgramLoops \o <<END>>
    /\ unit.kids[1].kids[3].kids[1].kids[2].kids[1] = ForStatement
    /\ unit.kids[1].kids[3].kids[1].kids[2].kids[2] = ExpressionStatement(IdentifierExpression("b"))

(***************************************************************************)
(* C10.  The outcome of parse() is determined by the type tags alone: on   *)
(* two vectors with the same tag at every position parse() fails on both   *)
(* or succeeds on both with units of the same shape.  Stated against the   *)
(* vector with the same tags and the canonical text of each tag.           *)
(***************************************************************************)
C10_OutcomeDeterminedByTypes ==
    Finished =>
        \A other \in {parse(Canonical(tokens), evaluation_order)} :
            /\ status = "returned" <=> other.kind = "ok"
            /\ status = "returned" => Shape(unit) = Shape(other.node)

====
